---- MODULE Spec2Model ----
(***************************************************************************)
(* A model of app/cloudinary_service.py: the size-constrained JPEG         *)
(* re-encoder (reduce_image_size), the Software tag parser                 *)
(* (clean_software_tag), the EXIF normaliser (filter_exif) and the         *)
(* context serialisation of upload_image / update_cdn_image.               *)
(*                                                                         *)
(* Python strings are sequences of characters. A printable ASCII character *)
(* is the one-character string of itself, tab, newline, carriage return and *)
(* form feed are "\t", "\n", "\r" and "\f", and any other character is    *)
(* the string of its code point, "U+0661" for ARABIC-INDIC DIGIT ONE.       *)
(***************************************************************************)
EXTENDS Integers, Sequences, FiniteSets, TLC

VARIABLES
    pc,            \* position of the running function
    image,         \* reduce_image_size: the source image (its size profile)
    max_size,      \* reduce_image_size: the max_size argument
    img_byte_arr,  \* reduce_image_size: the current BytesIO buffer
    current_size,  \* reduce_image_size: current_size
    quality,       \* reduce_image_size: quality
    saves,         \* log of the image.save calls made
    returned,      \* reduce_image_size: what the function returned
    exif,          \* the dict passed to the function under study, as it is now
    original,      \* the items that dict had when it was passed
    outcome,       \* what that call returned or raised
    context_str,   \* upload_image: the "key=value|key=value" string
    pairs,         \* the key/value pairs read back from context_str
    second,        \* what filter_exif returned or raised on its own output
    converted_image \* upload_folder: the buffer image_to_bytesio returned

encVars == <<image, max_size, img_byte_arr, current_size, quality, saves, returned>>
exifVars == <<exif, original, outcome, context_str, pairs, second, converted_image>>
vars == <<pc, encVars, exifVars>>

(***************************************************************************)
(* Python strings and the two regular expressions of clean_software_tag    *)
(***************************************************************************)

\* The decimal digits of Unicode 15 (category Nd), one row per script, in the
\* order of their values 0..9: what \d matches in a str pattern, and what
\* float() reads as digits.
DecimalDigits ==
    <<<<"0", "1", "2", "3", "4", "5", "6", "7", "8", "9">>,
      <<"U+0660", "U+0661", "U+0662", "U+0663", "U+0664", "U+0665", "U+0666", "U+0667", "U+0668", "U+0669">>,
      <<"U+06F0", "U+06F1", "U+06F2", "U+06F3", "U+06F4", "U+06F5", "U+06F6", "U+06F7", "U+06F8", "U+06F9">>,
      <<"U+07C0", "U+07C1", "U+07C2", "U+07C3", "U+07C4", "U+07C5", "U+07C6", "U+07C7", "U+07C8", "U+07C9">>,
      <<"U+0966", "U+0967", "U+0968", "U+0969", "U+096A", "U+096B", "U+096C", "U+096D", "U+096E", "U+096F">>,
      <<"U+09E6", "U+09E7", "U+09E8", "U+09E9", "U+09EA", "U+09EB", "U+09EC", "U+09ED", "U+09EE", "U+09EF">>,
      <<"U+0A66", "U+0A67", "U+0A68", "U+0A69", "U+0A6A", "U+0A6B", "U+0A6C", "U+0A6D", "U+0A6E", "U+0A6F">>,
      <<"U+0AE6", "U+0AE7", "U+0AE8", "U+0AE9", "U+0AEA", "U+0AEB", "U+0AEC", "U+0AED", "U+0AEE", "U+0AEF">>,
      <<"U+0B66", "U+0B67", "U+0B68", "U+0B69", "U+0B6A", "U+0B6B", "U+0B6C", "U+0B6D", "U+0B6E", "U+0B6F">>,
      <<"U+0BE6", "U+0BE7", "U+0BE8", "U+0BE9", "U+0BEA", "U+0BEB", "U+0BEC", "U+0BED", "U+0BEE", "U+0BEF">>,
      <<"U+0C66", "U+0C67", "U+0C68", "U+0C69", "U+0C6A", "U+0C6B", "U+0C6C", "U+0C6D", "U+0C6E", "U+0C6F">>,
      <<"U+0CE6", "U+0CE7", "U+0CE8", "U+0CE9", "U+0CEA", "U+0CEB", "U+0CEC", "U+0CED", "U+0CEE", "U+0CEF">>,
      <<"U+0D66", "U+0D67", "U+0D68", "U+0D69", "U+0D6A", "U+0D6B", "U+0D6C", "U+0D6D", "U+0D6E", "U+0D6F">>,
      <<"U+0DE6", "U+0DE7", "U+0DE8", "U+0DE9", "U+0DEA", "U+0DEB", "U+0DEC", "U+0DED", "U+0DEE", "U+0DEF">>,
      <<"U+0E50", "U+0E51", "U+0E52", "U+0E53", "U+0E54", "U+0E55", "U+0E56", "U+0E57", "U+0E58", "U+0E59">>,
      <<"U+0ED0", "U+0ED1", "U+0ED2", "U+0ED3", "U+0ED4", "U+0ED5", "U+0ED6", "U+0ED7", "U+0ED8", "U+0ED9">>,
      <<"U+0F20", "U+0F21", "U+0F22", "U+0F23", "U+0F24", "U+0F25", "U+0F26", "U+0F27", "U+0F28", "U+0F29">>,
      <<"U+1040", "U+1041", "U+1042", "U+1043", "U+1044", "U+1045", "U+1046", "U+1047", "U+1048", "U+1049">>,
      <<"U+1090", "U+1091", "U+1092", "U+1093", "U+1094", "U+1095", "U+1096", "U+1097", "U+1098", "U+1099">>,
      <<"U+17E0", "U+17E1", "U+17E2", "U+17E3", "U+17E4", "U+17E5", "U+17E6", "U+17E7", "U+17E8", "U+17E9">>,
      <<"U+1810", "U+1811", "U+1812", "U+1813", "U+1814", "U+1815", "U+1816", "U+1817", "U+1818", "U+1819">>,
      <<"U+1946", "U+1947", "U+1948", "U+1949", "U+194A", "U+194B", "U+194C", "U+194D", "U+194E", "U+194F">>,
      <<"U+19D0", "U+19D1", "U+19D2", "U+19D3", "U+19D4", "U+19D5", "U+19D6", "U+19D7", "U+19D8", "U+19D9">>,
      <<"U+1A80", "U+1A81", "U+1A82", "U+1A83", "U+1A84", "U+1A85", "U+1A86", "U+1A87", "U+1A88", "U+1A89">>,
      <<"U+1A90", "U+1A91", "U+1A92", "U+1A93", "U+1A94", "U+1A95", "U+1A96", "U+1A97", "U+1A98", "U+1A99">>,
      <<"U+1B50", "U+1B51", "U+1B52", "U+1B53", "U+1B54", "U+1B55", "U+1B56", "U+1B57", "U+1B58", "U+1B59">>,
      <<"U+1BB0", "U+1BB1", "U+1BB2", "U+1BB3", "U+1BB4", "U+1BB5", "U+1BB6", "U+1BB7", "U+1BB8", "U+1BB9">>,
      <<"U+1C40", "U+1C41", "U+1C42", "U+1C43", "U+1C44", "U+1C45", "U+1C46", "U+1C47", "U+1C48", "U+1C49">>,
      <<"U+1C50", "U+1C51", "U+1C52", "U+1C53", "U+1C54", "U+1C55", "U+1C56", "U+1C57", "U+1C58", "U+1C59">>,
      <<"U+A620", "U+A621", "U+A622", "U+A623", "U+A624", "U+A625", "U+A626", "U+A627", "U+A628", "U+A629">>,
      <<"U+A8D0", "U+A8D1", "U+A8D2", "U+A8D3", "U+A8D4", "U+A8D5", "U+A8D6", "U+A8D7", "U+A8D8", "U+A8D9">>,
      <<"U+A900", "U+A901", "U+A902", "U+A903", "U+A904", "U+A905", "U+A906", "U+A907", "U+A908", "U+A909">>,
      <<"U+A9D0", "U+A9D1", "U+A9D2", "U+A9D3", "U+A9D4", "U+A9D5", "U+A9D6", "U+A9D7", "U+A9D8", "U+A9D9">>,
      <<"U+A9F0", "U+A9F1", "U+A9F2", "U+A9F3", "U+A9F4", "U+A9F5", "U+A9F6", "U+A9F7", "U+A9F8", "U+A9F9">>,
      <<"U+AA50", "U+AA51", "U+AA52", "U+AA53", "U+AA54", "U+AA55", "U+AA56", "U+AA57", "U+AA58", "U+AA59">>,
      <<"U+ABF0", "U+ABF1", "U+ABF2", "U+ABF3", "U+ABF4", "U+ABF5", "U+ABF6", "U+ABF7", "U+ABF8", "U+ABF9">>,
      <<"U+FF10", "U+FF11", "U+FF12", "U+FF13", "U+FF14", "U+FF15", "U+FF16", "U+FF17", "U+FF18", "U+FF19">>,
      <<"U+104A0", "U+104A1", "U+104A2", "U+104A3", "U+104A4", "U+104A5", "U+104A6", "U+104A7", "U+104A8", "U+104A9">>,
      <<"U+10D30", "U+10D31", "U+10D32", "U+10D33", "U+10D34", "U+10D35", "U+10D36", "U+10D37", "U+10D38", "U+10D39">>,
      <<"U+11066", "U+11067", "U+11068", "U+11069", "U+1106A", "U+1106B", "U+1106C", "U+1106D", "U+1106E", "U+1106F">>,
      <<"U+110F0", "U+110F1", "U+110F2", "U+110F3", "U+110F4", "U+110F5", "U+110F6", "U+110F7", "U+110F8", "U+110F9">>,
      <<"U+11136", "U+11137", "U+11138", "U+11139", "U+1113A", "U+1113B", "U+1113C", "U+1113D", "U+1113E", "U+1113F">>,
      <<"U+111D0", "U+111D1", "U+111D2", "U+111D3", "U+111D4", "U+111D5", "U+111D6", "U+111D7", "U+111D8", "U+111D9">>,
      <<"U+112F0", "U+112F1", "U+112F2", "U+112F3", "U+112F4", "U+112F5", "U+112F6", "U+112F7", "U+112F8", "U+112F9">>,
      <<"U+11450", "U+11451", "U+11452", "U+11453", "U+11454", "U+11455", "U+11456", "U+11457", "U+11458", "U+11459">>,
      <<"U+114D0", "U+114D1", "U+114D2", "U+114D3", "U+114D4", "U+114D5", "U+114D6", "U+114D7", "U+114D8", "U+114D9">>,
      <<"U+11650", "U+11651", "U+11652", "U+11653", "U+11654", "U+11655", "U+11656", "U+11657", "U+11658", "U+11659">>,
      <<"U+116C0", "U+116C1", "U+116C2", "U+116C3", "U+116C4", "U+116C5", "U+116C6", "U+116C7", "U+116C8", "U+116C9">>,
      <<"U+11730", "U+11731", "U+11732", "U+11733", "U+11734", "U+11735", "U+11736", "U+11737", "U+11738", "U+11739">>,
      <<"U+118E0", "U+118E1", "U+118E2", "U+118E3", "U+118E4", "U+118E5", "U+118E6", "U+118E7", "U+118E8", "U+118E9">>,
      <<"U+11950", "U+11951", "U+11952", "U+11953", "U+11954", "U+11955", "U+11956", "U+11957", "U+11958", "U+11959">>,
      <<"U+11C50", "U+11C51", "U+11C52", "U+11C53", "U+11C54", "U+11C55", "U+11C56", "U+11C57", "U+11C58", "U+11C59">>,
      <<"U+11D50", "U+11D51", "U+11D52", "U+11D53", "U+11D54", "U+11D55", "U+11D56", "U+11D57", "U+11D58", "U+11D59">>,
      <<"U+11DA0", "U+11DA1", "U+11DA2", "U+11DA3", "U+11DA4", "U+11DA5", "U+11DA6", "U+11DA7", "U+11DA8", "U+11DA9">>,
      <<"U+11F50", "U+11F51", "U+11F52", "U+11F53", "U+11F54", "U+11F55", "U+11F56", "U+11F57", "U+11F58", "U+11F59">>,
      <<"U+16A60", "U+16A61", "U+16A62", "U+16A63", "U+16A64", "U+16A65", "U+16A66", "U+16A67", "U+16A68", "U+16A69">>,
      <<"U+16AC0", "U+16AC1", "U+16AC2", "U+16AC3", "U+16AC4", "U+16AC5", "U+16AC6", "U+16AC7", "U+16AC8", "U+16AC9">>,
      <<"U+16B50", "U+16B51", "U+16B52", "U+16B53", "U+16B54", "U+16B55", "U+16B56", "U+16B57", "U+16B58", "U+16B59">>,
      <<"U+1D7CE", "U+1D7CF", "U+1D7D0", "U+1D7D1", "U+1D7D2", "U+1D7D3", "U+1D7D4", "U+1D7D5", "U+1D7D6", "U+1D7D7">>,
      <<"U+1D7D8", "U+1D7D9", "U+1D7DA", "U+1D7DB", "U+1D7DC", "U+1D7DD", "U+1D7DE", "U+1D7DF", "U+1D7E0", "U+1D7E1">>,
      <<"U+1D7E2", "U+1D7E3", "U+1D7E4", "U+1D7E5", "U+1D7E6", "U+1D7E7", "U+1D7E8", "U+1D7E9", "U+1D7EA", "U+1D7EB">>,
      <<"U+1D7EC", "U+1D7ED", "U+1D7EE", "U+1D7EF", "U+1D7F0", "U+1D7F1", "U+1D7F2", "U+1D7F3", "U+1D7F4", "U+1D7F5">>,
      <<"U+1D7F6", "U+1D7F7", "U+1D7F8", "U+1D7F9", "U+1D7FA", "U+1D7FB", "U+1D7FC", "U+1D7FD", "U+1D7FE", "U+1D7FF">>,
      <<"U+1E140", "U+1E141", "U+1E142", "U+1E143", "U+1E144", "U+1E145", "U+1E146", "U+1E147", "U+1E148", "U+1E149">>,
      <<"U+1E2F0", "U+1E2F1", "U+1E2F2", "U+1E2F3", "U+1E2F4", "U+1E2F5", "U+1E2F6", "U+1E2F7", "U+1E2F8", "U+1E2F9">>,
      <<"U+1E4F0", "U+1E4F1", "U+1E4F2", "U+1E4F3", "U+1E4F4", "U+1E4F5", "U+1E4F6", "U+1E4F7", "U+1E4F8", "U+1E4F9">>,
      <<"U+1E950", "U+1E951", "U+1E952", "U+1E953", "U+1E954", "U+1E955", "U+1E956", "U+1E957", "U+1E958", "U+1E959">>,
      <<"U+1FBF0", "U+1FBF1", "U+1FBF2", "U+1FBF3", "U+1FBF4", "U+1FBF5", "U+1FBF6", "U+1FBF7", "U+1FBF8", "U+1FBF9">>>>

\* \d
Digits == {DecimalDigits[r][v] : r \in 1..Len(DecimalDigits), v \in 1..10}

\* The value of a decimal digit.
DigitValue(c) ==
    CHOOSE v \in 0..9 : \E r \in 1..Len(DecimalDigits) : DecimalDigits[r][v + 1] = c

DigitChar(n) == <<"0", "1", "2", "3", "4", "5", "6", "7", "8", "9">>[n + 1]

\* str(n) for an int n.
RECURSIVE IntStr(_)
IntStr(n) ==
    IF n < 0 THEN <<"-">> \o IntStr(-n)
    ELSE IF n < 10 THEN <<DigitChar(n)>>
    ELSE IntStr(n \div 10) \o <<DigitChar(n % 10)>>

\* The literal `lit` occurs in s at index i.
MatchAt(s, i, lit) ==
    /\ i >= 1
    /\ i + Len(lit) - 1 <= Len(s)
    /\ \A j \in 1..Len(lit) : s[i + j - 1] = lit[j]

\* lit in s
Contains(s, lit) == \E i \in 1..(Len(s) + 1) : MatchAt(s, i, lit)

\* The index after the longest run of digits of s that starts at i (\d* at i).
RECURSIVE DigitsEnd(_, _)
DigitsEnd(s, i) ==
    IF i <= Len(s) /\ s[i] \in Digits THEN DigitsEnd(s, i + 1) ELSE i

\* \d+\.\d+ at i: the index after the match, 0 when there is none. Both runs
\* are greedy; a shorter first run cannot be followed by the dot.
DecimalEnd(s, i) ==
    LET a == DigitsEnd(s, i)
        b == DigitsEnd(s, a + 1)
    IN  IF a > i /\ a <= Len(s) /\ s[a] = "." /\ b > a + 1 THEN b ELSE 0

\* A match object: group0 is group(0), group1 the version group; or None.
NoMatch == [found |-> FALSE, group0 |-> <<>>, group1 |-> <<>>]

LIT_Adobe == <<"A", "d", "o", "b", "e">>
LIT_Lightroom == <<"L", "i", "g", "h", "t", "r", "o", "o", "m">>
LIT_LightroomClassic == <<"L", "i", "g", "h", "t", "r", "o", "o", "m", " ", "C", "l", "a", "s", "s", "i", "c", " ">>
LIT_Ver == <<"V", "e", "r">>
LIT_Nikon == <<"N", "I", "K", "O", "N", " ">>
LIT_VerDot == <<" ", "V", "e", "r", ".", " ">>

\* The index after r"Lightroom Classic \d+\.\d+" matched at i, 0 if no match.
LightroomEndAt(s, i) ==
    IF MatchAt(s, i, LIT_LightroomClassic)
    THEN DecimalEnd(s, i + Len(LIT_LightroomClassic))
    ELSE 0

\* re.search(r"Lightroom Classic \d+\.\d+", s): the leftmost match.
SearchLightroom(s) ==
    LET starts == {i \in 1..Len(s) : LightroomEndAt(s, i) > 0}
    IN  IF starts = {} THEN NoMatch
        ELSE LET i == CHOOSE k \in starts : \A m \in starts : k <= m
             IN  [found |-> TRUE,
                  group0 |-> SubSeq(s, i, LightroomEndAt(s, i) - 1),
                  group1 |-> <<>>]

\* Where the version group of r"Ver\.? ?(\d+\.\d+)" starts when "Ver" is at
\* i: after an optional dot and an optional space (each taken when present;
\* giving one back can only leave a dot or a space where a digit is needed).
VerGroupStart(s, i) ==
    LET j == i + Len(LIT_Ver)
        k == IF j <= Len(s) /\ s[j] = "." THEN j + 1 ELSE j
    IN  IF k <= Len(s) /\ s[k] = " " THEN k + 1 ELSE k

\* First alternative, r"Ver\.? ?(\d+\.\d+)", at i: <<start, end>> of the group.
VerAlt1At(s, i) ==
    IF MatchAt(s, i, LIT_Ver) /\ DecimalEnd(s, VerGroupStart(s, i)) > 0
    THEN <<VerGroupStart(s, i), DecimalEnd(s, VerGroupStart(s, i))>>
    ELSE <<0, 0>>

\* Second alternative, r"Ver(\d+\.\d+)", at i.
VerAlt2At(s, i) ==
    IF MatchAt(s, i, LIT_Ver) /\ DecimalEnd(s, i + Len(LIT_Ver)) > 0
    THEN <<i + Len(LIT_Ver), DecimalEnd(s, i + Len(LIT_Ver))>>
    ELSE <<0, 0>>

\* The alternation at i: the first alternative that matches.
VerAt(s, i) == IF VerAlt1At(s, i)[2] > 0 THEN VerAlt1At(s, i) ELSE VerAlt2At(s, i)

\* re.search(r"Ver\.? ?(\d+\.\d+)|Ver(\d+\.\d+)", s); group1 is
\* match.group(1) or match.group(2).
SearchVer(s) ==
    LET starts == {i \in 1..Len(s) : VerAt(s, i)[2] > 0}
    IN  IF starts = {} THEN NoMatch
        ELSE LET i == CHOOSE k \in starts : \A m \in starts : k <= m
                 g == VerAt(s, i)
             IN  [found |-> TRUE,
                  group0 |-> SubSeq(s, i, g[2] - 1),
                  group1 |-> SubSeq(s, g[1], g[2] - 1)]

\* s without its leading "0"s.
RECURSIVE StripLeadingZeros(_)
StripLeadingZeros(s) ==
    IF s # <<>> /\ Head(s) = "0" THEN StripLeadingZeros(Tail(s)) ELSE s

\* s without its trailing "0"s.
RECURSIVE StripTrailingZeros(_)
StripTrailingZeros(s) ==
    IF s # <<>> /\ s[Len(s)] = "0"
    THEN StripTrailingZeros(SubSeq(s, 1, Len(s) - 1))
    ELSE s

\* s with every decimal digit written as the ASCII digit of its value.
AsciiDigits(s) ==
    [i \in 1..Len(s) |-> IF s[i] \in Digits THEN DigitChar(DigitValue(s[i])) ELSE s[i]]

\* The significant digits of a numeral <digits>.<digits>: all its digits
\* without the leading and the trailing zeros.
SignificantDigits(num) ==
    StripTrailingZeros(StripLeadingZeros(SelectSeq(AsciiDigits(num), LAMBDA c : c # ".")))

\* The largest number of significant digits every float holds exactly as
\* written (DBL_DIG), and the largest power of ten, in absolute value,
\* reached with full precision.
FloatDigits == 15
FloatMaxExp == 307

\* repr of the float whose integer digits are ip (no leading zeros), whose
\* fraction digits are fp (no trailing zeros; sig is fp without its leading
\* zeros) and whose significant digits are m: exponent notation below 0.0001
\* and from 1e16 up, else one digit at least on each side of the point.
\* Defined where the float holds the digits as written: at most FloatDigits
\* significant digits, within 1e-307..1e308.
FloatRepr(ip, fp, sig, m) ==
    CASE Len(m) <= FloatDigits /\ ip = <<>> /\ sig # <<>>
            /\ Len(fp) - Len(sig) >= 4 /\ Len(fp) - Len(sig) < FloatMaxExp ->
                <<Head(m)>> \o (IF Len(m) > 1 THEN <<".">> \o Tail(m) ELSE <<>>)
                \o <<"e", "-">>
                \o (IF Len(fp) - Len(sig) + 1 < 10 THEN <<"0">> ELSE <<>>)
                \o IntStr(Len(fp) - Len(sig) + 1)
      [] Len(m) <= FloatDigits /\ Len(ip) > 16 /\ Len(ip) <= FloatMaxExp + 1 ->
                <<Head(m)>> \o (IF Len(m) > 1 THEN <<".">> \o Tail(m) ELSE <<>>)
                \o <<"e", "+">> \o IntStr(Len(ip) - 1)
      [] Len(m) <= FloatDigits /\ Len(ip) <= 16
            /\ ~(ip = <<>> /\ sig # <<>> /\ Len(fp) - Len(sig) >= 4) ->
                (IF ip = <<>> THEN <<"0">> ELSE ip)
                \o <<".">>
                \o (IF fp = <<>> THEN <<"0">> ELSE fp)

\* The numeral a, ASCII digits with the point at index dot, as a float.
FloatAt(a, dot) ==
    FloatRepr(StripLeadingZeros(SubSeq(a, 1, dot - 1)),
              StripTrailingZeros(SubSeq(a, dot + 1, Len(a))),
              StripLeadingZeros(StripTrailingZeros(SubSeq(a, dot + 1, Len(a)))),
              SignificantDigits(a))

\* d without its factors p.
RECURSIVE DivideOut(_, _)
DivideOut(d, p) == IF d % p = 0 THEN DivideOut(d \div p, p) ELSE d

RECURSIVE GCD(_, _)
GCD(a, b) == IF b = 0 THEN a ELSE GCD(b, a % b)

\* n/d, d > 0, has a finite decimal expansion: in lowest terms its
\* denominator has no prime factor but 2 and 5.
Terminating(n, d) ==
    DivideOut(DivideOut(d \div GCD(IF n < 0 THEN -n ELSE n, d), 2), 5) = 1

\* The digits after the point of r/d, 0 <= r < d, by long division.
RECURSIVE FractionDigits(_, _)
FractionDigits(r, d) ==
    IF r = 0 THEN <<>>
    ELSE <<DigitChar((10 * r) \div d)>> \o FractionDigits((10 * r) % d, d)

\* repr of the nearest double to a/d, a >= 0, d > 0. Defined where a/d has a
\* finite decimal expansion of at most FloatDigits significant digits: the
\* double then is the only one that numeral denotes, and the numeral the
\* shortest that denotes it.
FloatReprOf(a, d) ==
    FloatRepr(IF a \div d = 0 THEN <<>> ELSE IntStr(a \div d),
              FractionDigits(a % d, d),
              StripLeadingZeros(FractionDigits(a % d, d)),
              StripTrailingZeros(StripLeadingZeros(
                  (IF a \div d = 0 THEN <<>> ELSE IntStr(a \div d))
                  \o FractionDigits(a % d, d))))

\* repr(x) = str(x) for the float x nearest to n/d, d > 0.
FloatText(n, d) ==
    CASE Terminating(n, d) /\ n >= 0 -> FloatReprOf(n, d)
      [] Terminating(n, d) /\ n < 0 -> <<"-">> \o FloatReprOf(-n, d)

\* Line 74: str(float(num)) for num of the form \d+\.\d+. float() reads the
\* digits of any script; repr writes the shortest numeral that gives the
\* same float back, in ASCII digits.
FloatStr(num) ==
    FloatAt(AsciiDigits(num), CHOOSE i \in 1..Len(num) : num[i] = ".")

\* s.replace(old, new): every non-overlapping occurrence, left to right.
RECURSIVE ReplaceFrom(_, _, _, _)
ReplaceFrom(s, i, old, new) ==
    IF i > Len(s) THEN <<>>
    ELSE IF MatchAt(s, i, old) THEN new \o ReplaceFrom(s, i + Len(old), old, new)
    ELSE <<s[i]>> \o ReplaceFrom(s, i + 1, old, new)

Replace(s, old, new) == ReplaceFrom(s, 1, old, new)

\* The characters float() strips from both ends of its argument.
Whitespace ==
    {"\t", "\n", "U+000B", "\f", "\r", " ", "U+0085", "U+00A0", "U+1680",
     "U+2000", "U+2001", "U+2002", "U+2003", "U+2004", "U+2005", "U+2006",
     "U+2007", "U+2008", "U+2009", "U+200A", "U+2028", "U+2029", "U+202F",
     "U+205F", "U+3000"}

\* s.strip() as float() does it.
RECURSIVE Strip(_)
Strip(s) ==
    IF s # <<>> /\ Head(s) \in Whitespace THEN Strip(Tail(s))
    ELSE IF s # <<>> /\ s[Len(s)] \in Whitespace THEN Strip(SubSeq(s, 1, Len(s) - 1))
    ELSE s

\* s in lower case, for the letters of "infinity" and "nan".
Lower(s) ==
    [i \in 1..Len(s) |->
        CASE s[i] = "I" -> "i" [] s[i] = "N" -> "n" [] s[i] = "F" -> "f"
          [] s[i] = "T" -> "t" [] s[i] = "Y" -> "y" [] s[i] = "A" -> "a"
          [] OTHER -> s[i]]

\* The index after the digit part that starts at i, i when there is none:
\* digits, with single underscores allowed between two digits.
RECURSIVE DigitPartRest(_, _)
DigitPartRest(s, i) ==
    IF i <= Len(s) /\ s[i] \in Digits THEN DigitPartRest(s, i + 1)
    ELSE IF i + 1 <= Len(s) /\ s[i] = "_" /\ s[i + 1] \in Digits
    THEN DigitPartRest(s, i + 2)
    ELSE i

DigitPartEnd(s, i) ==
    IF i <= Len(s) /\ s[i] \in Digits THEN DigitPartRest(s, i + 1) ELSE i

\* int() of a digit part: its digits' values, underscores skipped.
RECURSIVE DigitsValue(_)
DigitsValue(s) ==
    IF s = <<>> THEN 0
    ELSE IF s[Len(s)] = "_" THEN DigitsValue(SubSeq(s, 1, Len(s) - 1))
    ELSE 10 * DigitsValue(SubSeq(s, 1, Len(s) - 1)) + DigitValue(s[Len(s)])

\* The number of digits of a digit part.
DigitCount(s) == Len(SelectSeq(s, LAMBDA c : c # "_"))

RECURSIVE Pow10(_)
Pow10(k) == IF k = 0 THEN 1 ELSE 10 * Pow10(k - 1)

NotAFloat == [kind |-> "invalid", n |-> 0, d |-> 1]

\* The digits of 2^1024 - 2^970, halfway between the largest double and
\* 2^1024: a number rounds to a finite double when its magnitude is below
\* it, and to an infinity (float of a str) or not at all (float of an int,
\* OverflowError) from it up.
FloatOverflow ==
    <<"1", "7", "9", "7", "6", "9", "3", "1", "3", "4", "8", "6", "2", "3", "1", "5",
      "8", "0", "7", "9", "3", "7", "2", "8", "9", "7", "1", "4", "0", "5", "3", "0",
      "3", "4", "1", "5", "0", "7", "9", "9", "3", "4", "1", "3", "2", "7", "1", "0",
      "0", "3", "7", "8", "2", "6", "9", "3", "6", "1", "7", "3", "7", "7", "8", "9",
      "8", "0", "4", "4", "4", "9", "6", "8", "2", "9", "2", "7", "6", "4", "7", "5",
      "0", "9", "4", "6", "6", "4", "9", "0", "1", "7", "9", "7", "7", "5", "8", "7",
      "2", "0", "7", "0", "9", "6", "3", "3", "0", "2", "8", "6", "4", "1", "6", "6",
      "9", "2", "8", "8", "7", "9", "1", "0", "9", "4", "6", "5", "5", "5", "5", "4",
      "7", "8", "5", "1", "9", "4", "0", "4", "0", "2", "6", "3", "0", "6", "5", "7",
      "4", "8", "8", "6", "7", "1", "5", "0", "5", "8", "2", "0", "6", "8", "1", "9",
      "0", "8", "9", "0", "2", "0", "0", "0", "7", "0", "8", "3", "8", "3", "6", "7",
      "6", "2", "7", "3", "8", "5", "4", "8", "4", "5", "8", "1", "7", "7", "1", "1",
      "5", "3", "1", "7", "6", "4", "4", "7", "5", "7", "3", "0", "2", "7", "0", "0",
      "6", "9", "8", "5", "5", "5", "7", "1", "3", "6", "6", "9", "5", "9", "6", "2",
      "2", "8", "4", "2", "9", "1", "4", "8", "1", "9", "8", "6", "0", "8", "3", "4",
      "9", "3", "6", "4", "7", "5", "2", "9", "2", "7", "1", "9", "0", "7", "4", "1",
      "6", "8", "4", "4", "4", "3", "6", "5", "5", "1", "0", "7", "0", "4", "3", "4",
      "2", "7", "1", "1", "5", "5", "9", "6", "9", "9", "5", "0", "8", "0", "9", "3",
      "0", "4", "2", "8", "8", "0", "1", "7", "7", "9", "0", "4", "1", "7", "4", "4",
      "9", "7", "7", "9", "2">>

\* a >= b for two digit strings of the same length.
DigitsGE(a, b) ==
    \/ a = b
    \/ \E i \in 1..Len(a) :
          /\ DigitValue(a[i]) > DigitValue(b[i])
          /\ \A j \in 1..(i - 1) : a[j] = b[j]

\* The first k digits of m, m followed by zeros when it is shorter.
FirstDigits(m, k) == [i \in 1..k |-> IF i <= Len(m) THEN m[i] ELSE "0"]

\* m / 10^scale >= FloatOverflow, for the digits m of a whole number
\* without leading zeros: the integer part has Len(m) - scale digits.
Overflows(m, scale) ==
    /\ m # <<>>
    /\ \/ Len(m) - scale > Len(FloatOverflow)
       \/ /\ Len(m) - scale = Len(FloatOverflow)
          /\ DigitsGE(FirstDigits(m, Len(FloatOverflow)), FloatOverflow)

\* The float sign * m / 10^scale for the mantissa digits m: an infinity
\* from FloatOverflow up, else the fraction n/d.
FloatOf(sign, m, scale) ==
    IF Overflows(StripLeadingZeros(AsciiDigits(m)), scale)
    THEN [kind |-> "inf", n |-> sign, d |-> 1]
    ELSE [kind |-> "finite",
          n |-> sign * DigitsValue(m) * (IF scale < 0 THEN Pow10(-scale) ELSE 1),
          d |-> IF scale > 0 THEN Pow10(scale) ELSE 1]

\* The digits of b before index ie and those from ie + 1 to fe - 1: the
\* mantissa of a numeral whose point, if any, is at ie.
Mantissa(b, ie, fe) ==
    SelectSeq(SubSeq(b, 1, ie - 1) \o SubSeq(b, ie + 1, fe - 1), LAMBDA c : c # "_")

\* The exponent, whose digits start at xs and must reach the end of b.
ParseExponent(b, sign, ie, fe, xs, xsign) ==
    IF DigitPartEnd(b, xs) = xs \/ DigitPartEnd(b, xs) # Len(b) + 1 THEN NotAFloat
    ELSE FloatOf(sign, Mantissa(b, ie, fe),
                 DigitCount(SubSeq(b, ie + 1, fe - 1))
                   - xsign * DigitsValue(SubSeq(b, xs, Len(b))))

\* digits [. [digits]] | . digits, ending before index fe (the integer
\* digits before ie), then nothing or e [sign] digits.
ParseNumber(b, sign, ie, fe) ==
    IF ~(ie > 1 \/ fe > ie + 1) THEN NotAFloat
    ELSE IF fe = Len(b) + 1
    THEN FloatOf(sign, Mantissa(b, ie, fe), DigitCount(SubSeq(b, ie + 1, fe - 1)))
    ELSE IF b[fe] \notin {"e", "E"} THEN NotAFloat
    ELSE IF fe + 1 <= Len(b) /\ b[fe + 1] \in {"+", "-"}
    THEN ParseExponent(b, sign, ie, fe, fe + 2, IF b[fe + 1] = "-" THEN -1 ELSE 1)
    ELSE ParseExponent(b, sign, ie, fe, fe + 1, 1)

\* The index after the fraction of a numeral whose integer digits end
\* before ie.
FractionEnd(b, ie) ==
    IF ie <= Len(b) /\ b[ie] = "." THEN DigitPartEnd(b, ie + 1) ELSE ie

\* The argument without whitespace and sign: inf, infinity or nan in any
\* case, or a number.
ParseBody(b, sign) ==
    IF Lower(b) \in {<<"i", "n", "f">>, <<"i", "n", "f", "i", "n", "i", "t", "y">>}
    THEN [kind |-> "inf", n |-> sign, d |-> 1]
    ELSE IF Lower(b) = <<"n", "a", "n">> THEN [kind |-> "nan", n |-> 0, d |-> 1]
    ELSE ParseNumber(b, sign, DigitPartEnd(b, 1), FractionEnd(b, DigitPartEnd(b, 1)))

ParseSigned(s) ==
    IF s # <<>> /\ s[1] = "-" THEN ParseBody(Tail(s), -1)
    ELSE IF s # <<>> /\ s[1] = "+" THEN ParseBody(Tail(s), 1)
    ELSE ParseBody(s, 1)

\* float(s) for a str s: kind "invalid" when float() raises ValueError,
\* "inf" and "nan" for the infinities and NaN, else "finite" with the value
\* n/d. The syntax is [sign] (digits [. [digits]] | . digits) [e [sign]
\* digits], or [sign] inf | infinity | nan in any case, between optional
\* whitespace. n/d is the value of the numeral itself; the float is the
\* nearest double to it.
ParseFloat(str) == ParseSigned(Strip(str))

(***************************************************************************)
(* Python values and dicts                                                 *)
(***************************************************************************)

\* A value of the metadata bag: an int, a str, None, or a number that is
\* not an int, written n/d with d > 0: the float nearest to n/d of a parsed
\* JSON document or of an EXIF FLOAT or DOUBLE value, or the IFDRational n/d
\* of an EXIF RATIONAL value, which formats, hashes and converts as that
\* float does.
IntV(n) == [t |-> "int", n |-> n, d |-> 1, s |-> <<>>]
RatV(n, d) == [t |-> "rat", n |-> n, d |-> d, s |-> <<>>]
StrV(s) == [t |-> "str", n |-> 0, d |-> 1, s |-> s]
NoneV == [t |-> "none", n |-> 0, d |-> 1, s |-> <<>>]

\* The floats that are no number n/d: NaN and the two infinities (sign 1 or
\* -1), as an EXIF FLOAT or DOUBLE value or a JSON document can hold them.
NanV == [t |-> "nan", n |-> 0, d |-> 1, s |-> <<>>]
InfV(sign) == [t |-> "inf", n |-> sign, d |-> 1, s |-> <<>>]

\* A dict is the sequence of its items, in insertion order.
Has(dict, k) == \E i \in 1..Len(dict) : dict[i].k = k

\* dict[k]
Get(dict, k) == dict[CHOOSE i \in 1..Len(dict) : dict[i].k = k].v

\* dict[k] = v: an existing key keeps its place, a new one goes last.
SetItem(dict, k, v) ==
    IF Has(dict, k)
    THEN [i \in 1..Len(dict) |-> IF dict[i].k = k THEN [k |-> k, v |-> v] ELSE dict[i]]
    ELSE Append(dict, [k |-> k, v |-> v])

\* The dict left by dict.pop(k).
Pop(dict, k) == SelectSeq(dict, LAMBDA e : e.k # k)

Keys(dict) == {dict[i].k : i \in 1..Len(dict)}

Raise(status, key) == [status |-> status, key |-> key, dict |-> <<>>]
Return(dict) == [status |-> "ok", key |-> "", dict |-> dict]

\* The text of a key.
KeyText(k) ==
    CASE k = "Model" -> <<"M", "o", "d", "e", "l">>
      [] k = "LensModel" -> <<"L", "e", "n", "s", "M", "o", "d", "e", "l">>
      [] k = "FocalLengthIn35mmFilm" -> <<"F", "o", "c", "a", "l", "L", "e", "n", "g", "t", "h", "I", "n", "3", "5", "m", "m", "F", "i", "l", "m">>
      [] k = "FNumber" -> <<"F", "N", "u", "m", "b", "e", "r">>
      [] k = "ExposureTime" -> <<"E", "x", "p", "o", "s", "u", "r", "e", "T", "i", "m", "e">>
      [] k = "ISOSpeedRatings" -> <<"I", "S", "O", "S", "p", "e", "e", "d", "R", "a", "t", "i", "n", "g", "s">>
      [] k = "ExposureProgram" -> <<"E", "x", "p", "o", "s", "u", "r", "e", "P", "r", "o", "g", "r", "a", "m">>
      [] k = "Software" -> <<"S", "o", "f", "t", "w", "a", "r", "e">>
      [] k = "DateTimeOriginal" -> <<"D", "a", "t", "e", "T", "i", "m", "e", "O", "r", "i", "g", "i", "n", "a", "l">>
      [] k = "ISO" -> <<"I", "S", "O">>
      [] k = "FocalLengthIn35mmFormat" -> <<"F", "o", "c", "a", "l", "L", "e", "n", "g", "t", "h", "I", "n", "3", "5", "m", "m", "F", "o", "r", "m", "a", "t">>
      [] k = "Make" -> <<"M", "a", "k", "e">>

\* str(Fraction(n, d)): lowest terms, a whole number without "/1".
FractionStr(n, d) ==
    LET g == GCD(n, d)
    IN  IF d \div g = 1 THEN IntStr(n \div g)
        ELSE IntStr(n \div g) \o <<"/">> \o IntStr(d \div g)

\* f"{value}"
FormatValue(v) ==
    CASE v.t = "int" -> IntStr(v.n)
      [] v.t = "rat" -> FloatText(v.n, v.d)
      [] v.t = "nan" -> <<"n", "a", "n">>
      [] v.t = "inf" -> (IF v.n < 0 THEN <<"-">> ELSE <<>>) \o <<"i", "n", "f">>
      [] v.t = "str" -> v.s
      [] v.t = "none" -> <<"N", "o", "n", "e">>

(***************************************************************************)
(* clean_software_tag                                                      *)
(***************************************************************************)

None == [none |-> TRUE, s |-> <<>>]
Some(s) == [none |-> FALSE, s |-> s]

\* SoftwareVersion keeping the version group as written, without float().
SoftwareVersionRaw(software) ==
    IF Contains(software, LIT_Adobe)
    THEN IF SearchLightroom(software).found
         THEN Some(SearchLightroom(software).group0)
         ELSE None
    ELSE IF SearchVer(software).found
         THEN Some(SearchVer(software).group1)
         ELSE None

\* Lines 65-74: software_version, None when neither pattern matches.
SoftwareVersion(software) ==
    IF Contains(software, LIT_Adobe)
    THEN IF SearchLightroom(software).found
         THEN Some(SearchLightroom(software).group0)
         ELSE None
    ELSE IF SearchVer(software).found
         THEN Some(FloatStr(SearchVer(software).group1))
         ELSE None

\* Lines 76-82. `"Lightroom" in software_version` raises TypeError when
\* software_version is None; exif_dict["Model"] is read in the else branch
\* only, and .replace needs a str. Both assignments write into exif_dict,
\* the dict that is returned.
SetSoftware(exif_dict, software_version) ==
    IF software_version.none THEN Raise("TypeError", "")
    ELSE IF Contains(software_version.s, LIT_Lightroom)
    THEN Return(SetItem(exif_dict, "Software", StrV(software_version.s)))
    ELSE IF ~Has(exif_dict, "Model") THEN Raise("KeyError", "Model")
    ELSE IF Get(exif_dict, "Model").t # "str" THEN Raise("AttributeError", "")
    ELSE Return(SetItem(exif_dict, "Software",
             StrV(Replace(Get(exif_dict, "Model").s, LIT_Nikon, <<>>)
                  \o LIT_VerDot \o software_version.s)))

\* Lines 63-82. exif_dict["Software"] raises KeyError when the key is
\* missing, and `"Adobe" in` TypeError on a value that is not a str.
clean_software_tag(exif_dict) ==
    IF ~Has(exif_dict, "Software") THEN Raise("KeyError", "Software")
    ELSE IF Get(exif_dict, "Software").t # "str" THEN Raise("TypeError", "")
    ELSE SetSoftware(exif_dict, SoftwareVersion(Get(exif_dict, "Software").s))

(***************************************************************************)
(* convert_shutter_speed and filter_exif                                   *)
(***************************************************************************)

LIT_s == <<"s">>
LIT_mm == <<"m", "m">>
LIT_NotDefined == <<"N", "o", "t", " ", "d", "e", "f", "i", "n", "e", "d">>

\* The largest denominator limit_denominator() keeps, its default argument.
MaxDenominator == 1000000

\* The largest numerator for which int() of the double is computed from the
\* fraction: up to it the double nearest to n/d and n/d itself have the same
\* integer part.
MaxInt == 2147483647

\* Lines 55-60, for a float value that is the nearest double to n/d, d > 0.
\* Below 1 the result is defined for -1 <= n/d when n/d in lowest terms has
\* a denominator of at most MaxDenominator: limit_denominator then gives n/d
\* back (no other fraction that small is as close to the double). From 1 up
\* int() truncates the double, which is defined here up to MaxInt.
convert_shutter_speed(n, d) ==
    CASE n < d /\ -d <= n /\ d \div GCD(IF n < 0 THEN -n ELSE n, d) <= MaxDenominator ->
            FractionStr(n, d) \o LIT_s
      [] n >= d /\ n <= MaxInt -> IntStr(n \div d) \o LIT_s

\* Lines 16-26: the label of code i is EXPOSURE_PROGRAM[i + 1].
EXPOSURE_PROGRAM ==
    <<<<"N", "o", "t", " ", "d", "e", "f", "i", "n", "e", "d">>,
      <<"M", "a", "n", "u", "a", "l">>,
      <<"P", "r", "o", "g", "r", "a", "m", " ", "A", "E">>,
      <<"A", "p", "e", "r", "t", "u", "r", "e", "-", "p", "r", "i", "o", "r", "i", "t", "y", " ", "A", "E">>,
      <<"S", "h", "u", "t", "t", "e", "r", "-", "p", "r", "i", "o", "r", "i", "t", "y", " ", "A", "E">>,
      <<"C", "r", "e", "a", "t", "i", "v", "e", " ", "(", "s", "l", "o", "w", " ", "s", "p", "e", "e", "d", ")">>,
      <<"A", "c", "t", "i", "o", "n", " ", "(", "h", "i", "g", "h", " ", "s", "p", "e", "e", "d", ")">>,
      <<"P", "o", "r", "t", "r", "a", "i", "t">>,
      <<"L", "a", "n", "d", "s", "c", "a", "p", "e">>>>

\* Lines 96-106.
relevant_tags ==
    {"Model", "LensModel", "FocalLengthIn35mmFilm", "FNumber", "ExposureTime",
     "ISOSpeedRatings", "ExposureProgram", "Software", "DateTimeOriginal"}

\* Lines 107-111: the relevant tags whose value is not None.
Select(exif_in) ==
    SelectSeq(exif_in, LAMBDA e : e.k \in relevant_tags /\ e.v.t # "none")

\* Lines 112-114: EXPOSURE_PROGRAM.get(code, "Not defined"); the subscript
\* raises KeyError when the tag is missing.
MapExposureProgram(exif_clean) ==
    IF ~Has(exif_clean, "ExposureProgram") THEN Raise("KeyError", "ExposureProgram")
    ELSE LET code == Get(exif_clean, "ExposureProgram")
         IN  Return(SetItem(exif_clean, "ExposureProgram",
                 StrV(IF code.t \in {"int", "rat"} /\ code.n % code.d = 0
                         /\ (code.n \div code.d) \in 0..(Len(EXPOSURE_PROGRAM) - 1)
                      THEN EXPOSURE_PROGRAM[(code.n \div code.d) + 1]
                      ELSE LIT_NotDefined)))

\* Line 115.
FormatFocalLength(exif_clean) ==
    IF ~Has(exif_clean, "FocalLengthIn35mmFilm")
    THEN Raise("KeyError", "FocalLengthIn35mmFilm")
    ELSE Return(SetItem(exif_clean, "FocalLengthIn35mmFilm",
             StrV(FormatValue(Get(exif_clean, "FocalLengthIn35mmFilm")) \o LIT_mm)))

\* |n| \div d, the whole part of the magnitude of n/d, in digits.
WholeDigits(n, d) == IntStr((IF n < 0 THEN -n ELSE n) \div d)

\* Line 117, float(value): a str is parsed; an int or an IFDRational is
\* converted, which raises OverflowError from FloatOverflow up (kind
\* "overflow"); a float is itself, NaN and the infinities too; None raises
\* TypeError (kind "none").
FloatOfValue(v) ==
    CASE v.t = "str" -> ParseFloat(v.s)
      [] v.t \in {"int", "rat"} /\ Overflows(WholeDigits(v.n, v.d), 0) ->
            [kind |-> "overflow", n |-> 0, d |-> 1]
      [] v.t \in {"int", "rat"} /\ ~Overflows(WholeDigits(v.n, v.d), 0) ->
            [kind |-> "finite", n |-> v.n, d |-> v.d]
      [] v.t = "nan" -> [kind |-> "nan", n |-> 0, d |-> 1]
      [] v.t = "inf" -> [kind |-> "inf", n |-> v.n, d |-> 1]
      [] v.t = "none" -> [kind |-> "none", n |-> 0, d |-> 1]

\* Lines 116-118 once float() has been evaluated: float() raised TypeError,
\* ValueError or OverflowError; int() of NaN raises ValueError, int() and
\* Fraction() of an infinity OverflowError.
SetExposureTime(exif_clean, f) ==
    CASE f.kind = "none" -> Raise("TypeError", "")
      [] f.kind \in {"invalid", "nan"} -> Raise("ValueError", "")
      [] f.kind \in {"inf", "overflow"} -> Raise("OverflowError", "")
      [] f.kind = "finite" ->
            Return(SetItem(exif_clean, "ExposureTime", StrV(convert_shutter_speed(f.n, f.d))))

\* Lines 116-118: convert_shutter_speed(float(exif_clean["ExposureTime"])).
ConvertExposureTime(exif_clean) ==
    IF ~Has(exif_clean, "ExposureTime") THEN Raise("KeyError", "ExposureTime")
    ELSE SetExposureTime(exif_clean, FloatOfValue(Get(exif_clean, "ExposureTime")))

\* Line 120: exif_clean["ISO"] = exif_clean.pop("ISOSpeedRatings")
RenameISO(exif_clean) ==
    IF ~Has(exif_clean, "ISOSpeedRatings") THEN Raise("KeyError", "ISOSpeedRatings")
    ELSE Return(SetItem(Pop(exif_clean, "ISOSpeedRatings"), "ISO",
             Get(exif_clean, "ISOSpeedRatings")))

\* RenameFocalLength that copies the value and leaves the old key in place.
RenameFocalLengthKeepsOld(exif_clean) ==
    IF ~Has(exif_clean, "FocalLengthIn35mmFilm")
    THEN Raise("KeyError", "FocalLengthIn35mmFilm")
    ELSE Return(SetItem(exif_clean, "FocalLengthIn35mmFormat",
             Get(exif_clean, "FocalLengthIn35mmFilm")))

\* Line 121.
RenameFocalLength(exif_clean) ==
    IF ~Has(exif_clean, "FocalLengthIn35mmFilm")
    THEN Raise("KeyError", "FocalLengthIn35mmFilm")
    ELSE Return(SetItem(Pop(exif_clean, "FocalLengthIn35mmFilm"), "FocalLengthIn35mmFormat",
             Get(exif_clean, "FocalLengthIn35mmFilm")))

\* Statement i of lines 112-121, run on the dict the earlier ones left.
Statement(i, exif_clean) ==
    CASE i = 1 -> MapExposureProgram(exif_clean)
      [] i = 2 -> FormatFocalLength(exif_clean)
      [] i = 3 -> ConvertExposureTime(exif_clean)
      [] i = 4 -> clean_software_tag(exif_clean)
      [] i = 5 -> RenameISO(exif_clean)
      [] i = 6 -> RenameFocalLength(exif_clean)

\* The statements from the i-th on, in order; an exception ends the call.
RECURSIVE RunFrom(_, _)
RunFrom(i, o) ==
    IF o.status # "ok" \/ i > 6 THEN o ELSE RunFrom(i + 1, Statement(i, o.dict))

\* Lines 94-123.
filter_exif(exif_in) == RunFrom(1, Return(Select(exif_in)))

(***************************************************************************)
(* extract_exif_from_cdn_image                                             *)
(***************************************************************************)

\* Lines 196-206: the keys of the dict literal, in the order it is built.
CdnFields ==
    <<"Model", "LensModel", "FocalLengthIn35mmFormat", "FNumber", "ExposureTime",
      "ISO", "ExposureProgram", "Software", "DateTimeOriginal">>

\* Entry i of the dict literal, added to the entries built so far: the
\* subscript raises KeyError when image["image_metadata"] lacks the key;
\* FocalLengthIn35mmFormat is .replace(" ", "") of a str (AttributeError on
\* another value) and ExposureTime is f"{value}s".
CdnEntry(i, exif_clean, image_metadata) ==
    LET k == CdnFields[i]
    IN  IF ~Has(image_metadata, k) THEN Raise("KeyError", k)
        ELSE IF k = "FocalLengthIn35mmFormat" /\ Get(image_metadata, k).t # "str"
        THEN Raise("AttributeError", "")
        ELSE Return(Append(exif_clean,
                 [k |-> k,
                  v |-> CASE k = "FocalLengthIn35mmFormat" ->
                                StrV(Replace(Get(image_metadata, k).s, <<" ">>, <<>>))
                          [] k = "ExposureTime" ->
                                StrV(FormatValue(Get(image_metadata, k)) \o LIT_s)
                          [] OTHER -> Get(image_metadata, k)]))

\* Lines 195-207: the entries from the i-th on; an exception ends the call.
RECURSIVE CdnBuildFrom(_, _, _)
CdnBuildFrom(i, o, image_metadata) ==
    IF o.status # "ok" \/ i > Len(CdnFields) THEN o
    ELSE CdnBuildFrom(i + 1, CdnEntry(i, o.dict, image_metadata), image_metadata)

\* Line 208, on the dict the literal built.
CleanBuilt(o) == IF o.status = "ok" THEN clean_software_tag(o.dict) ELSE o

\* Lines 193-209, for image["image_metadata"] = image_metadata.
extract_exif_from_cdn_image(image_metadata) ==
    CleanBuilt(CdnBuildFrom(1, Return(<<>>), image_metadata))

(***************************************************************************)
(* The context string of upload_image and update_cdn_image                 *)
(***************************************************************************)

\* sep.join(parts)
RECURSIVE Join(_, _)
Join(parts, sep) ==
    IF parts = <<>> THEN <<>>
    ELSE IF Len(parts) = 1 THEN parts[1]
    ELSE parts[1] \o sep \o Join(Tail(parts), sep)

\* Lines 164 and 214: "|".join(f"{key}={value}" for key, value in context.items())
ContextString(context) ==
    Join([i \in 1..Len(context) |->
             KeyText(context[i].k) \o <<"=">> \o FormatValue(context[i].v)], <<"|">>)

\* s.split(c) for a one-character separator c.
RECURSIVE Split(_, _)
Split(s, c) ==
    IF \A i \in 1..Len(s) : s[i] # c THEN <<s>>
    ELSE LET i == CHOOSE k \in 1..Len(s) : s[k] = c /\ \A m \in 1..(k - 1) : s[m] # c
         IN  <<SubSeq(s, 1, i - 1)>> \o Split(SubSeq(s, i + 1, Len(s)), c)

\* The reader of the context string: split on "|", then each part on "=".
ParseContext(str) ==
    LET parts == Split(str, "|")
    IN  [i \in 1..Len(parts) |-> Split(parts[i], "=")]

\* The field/value pairs of a context, as a reader should recover them.
ContextPairs(context) ==
    [i \in 1..Len(context) |-> <<KeyText(context[i].k), FormatValue(context[i].v)>>]

\* What a call returned or raised: status is "ok" or the name of the exception,
\* key the missing key of a KeyError, dict the returned dict.
NoOutcome == [status |-> "none", key |-> "", dict |-> <<>>]

\* The normaliser's variables while reduce_image_size runs.
ExifIdle ==
    /\ exif = <<>>
    /\ original = <<>>
    /\ outcome = NoOutcome
    /\ context_str = <<>>
    /\ pairs = <<>>
    /\ second = NoOutcome
    /\ converted_image = [dflt |-> FALSE, quality |-> 0, size |-> 0]

(***************************************************************************)
(* reduce_image_size                                                       *)
(***************************************************************************)

\* Largest encoded size, in abstract units, that an image.save call produces.
MaxSize == 3

\* quality = 95, the first quality of the loop.
QualityStart == 95

\* quality -= 5
QualityStep == 5

\* The sizes image.save can produce.
Sizes == 1..MaxSize

\* The qualities the loop can pass to image.save: 95, 90, ..., 5.
Schedule == {q \in 1..QualityStart : (QualityStart - q) % QualityStep = 0}

\* Places where the size profile of an image may change.
Cuts == Schedule \cup {0}

\* An image in a mode JPEG cannot hold (RGBA, LA, P, ...), as the .png, .gif
\* and .webp files get_image_files lists can be: image.save(format="JPEG")
\* raises OSError and encodes nothing.
Unwritable ==
    [dflt |-> 0, hi |-> 0, mid |-> 0, lo |-> 0, t1 |-> 0, t2 |-> 0, writable |-> FALSE]

\* A source image, as far as image.save is concerned: whether the JPEG
\* encoder can write its mode, the size of its encoding at the library's
\* default quality, and a size for every quality: `hi` above cut t1, `mid`
\* in (t2, t1], `lo` at or below t2. The sizes are those of the encoder, a
\* library the code does not control, and are not ordered by quality: the
\* Huffman codes and the byte stuffing of baseline JPEG make some images a
\* little larger at a lower quality. libjpeg-turbo 2.1.5, set up as Pillow
\* sets it up (jpeg_set_defaults, jpeg_set_quality(quality, TRUE)), encodes
\* an 8x8 black and white image in 348 bytes at quality 10 and in 349 bytes
\* at quality 5.
Images ==
    {i \in [dflt : Sizes, hi : Sizes, mid : Sizes, lo : Sizes, t1 : Cuts, t2 : Cuts,
            writable : {TRUE}] : i.t2 <= i.t1}
    \cup {Unwritable}

\* image.save(buf, format="JPEG", quality=q, exif=...); buf.getbuffer().nbytes
EncodedSize(img, q) ==
    IF q > img.t1 THEN img.hi ELSE IF q > img.t2 THEN img.mid ELSE img.lo

\* image.save(buf, format="JPEG", exif=...): no quality given.
DefaultEncodedSize(img) == img.dflt

NoBuffer == [dflt |-> FALSE, quality |-> 0, size |-> 0]
NoReturn == [original |-> FALSE, stream |-> NoBuffer]

InitEncode ==
    /\ pc = "save_default"
    /\ image \in Images
    /\ max_size \in 0..MaxSize
    /\ img_byte_arr = NoBuffer
    /\ current_size = 0
    /\ quality = 0
    /\ saves = <<>>
    /\ returned = NoReturn
    /\ ExifIdle

\* Line 130: image.save raises, and reduce_image_size with it.
SaveDefaultRaises ==
    /\ pc = "save_default"
    /\ ~image.writable
    /\ pc' = "save_raised"
    /\ UNCHANGED <<encVars, exifVars>>

\* Lines 129-132: the first encoding, at the default quality.
SaveDefault ==
    /\ pc = "save_default"
    /\ image.writable
    /\ img_byte_arr' = [dflt |-> TRUE, quality |-> 0, size |-> DefaultEncodedSize(image)]
    /\ current_size' = DefaultEncodedSize(image)
    /\ saves' = Append(saves, img_byte_arr')
    /\ pc' = "check"
    /\ UNCHANGED <<image, max_size, quality, returned, exifVars>>

\* Lines 134-135: the encoding is too large, start the quality schedule.
EnterLoop ==
    /\ pc = "check"
    /\ current_size > max_size
    /\ quality' = QualityStart
    /\ pc' = "loop"
    /\ UNCHANGED <<image, max_size, img_byte_arr, current_size, saves, returned, exifVars>>

\* Lines 134, 148: the default encoding fits, the image is returned as it is.
ReturnOriginal ==
    /\ pc = "check"
    /\ ~(current_size > max_size)
    /\ returned' = [original |-> TRUE, stream |-> img_byte_arr]
    /\ pc' = "done"
    /\ UNCHANGED <<image, max_size, img_byte_arr, current_size, quality, saves, exifVars>>

\* LoopGuard stopping one step early, and LoopGuard without the quality test.
LoopGuardStopsEarly == current_size > max_size /\ quality > QualityStep
LoopGuardNoFloor == current_size > max_size

\* Line 136: while current_size > max_size and quality > 0

LoopGuard == current_size > max_size /\ quality > 0

\* Lines 137-146: one iteration, re-encoding the original image at `quality`.
LoopBody ==
    /\ pc = "loop"
    /\ LoopGuard
    /\ img_byte_arr' = [dflt |-> FALSE, quality |-> quality, size |-> EncodedSize(image, quality)]
    /\ current_size' = EncodedSize(image, quality)
    /\ saves' = Append(saves, img_byte_arr')
    /\ quality' = quality - QualityStep
    /\ UNCHANGED <<pc, image, max_size, returned, exifVars>>

\* LoopExit returning the first buffer of the loop instead of the last.
LoopExitFirstBuffer ==
    /\ pc = "loop"
    /\ ~LoopGuard
    /\ returned' = [original |-> FALSE, stream |-> saves[IF Len(saves) > 1 THEN 2 ELSE 1]]
    /\ pc' = "done"
    /\ UNCHANGED <<image, max_size, img_byte_arr, current_size, quality, saves, exifVars>>

\* Lines 147-148: image = Image.open(img_byte_arr); return image
LoopExit ==
    /\ pc = "loop"
    /\ ~LoopGuard
    /\ returned' = [original |-> FALSE, stream |-> img_byte_arr]
    /\ pc' = "done"
    /\ UNCHANGED <<image, max_size, img_byte_arr, current_size, quality, saves, exifVars>>

NextEncode ==
    \/ SaveDefault
    \/ SaveDefaultRaises
    \/ EnterLoop
    \/ ReturnOriginal
    \/ LoopBody
    \/ LoopExit

SpecEncode == InitEncode /\ [][NextEncode]_vars

(***************************************************************************)
(* Properties of reduce_image_size                                         *)
(***************************************************************************)

\* Some encoding the function can try fits: the default one or a scheduled one.
Reencodable ==
    /\ image.writable
    /\ \/ DefaultEncodedSize(image) <= max_size
       \/ \E q \in Schedule : EncodedSize(image, q) <= max_size

\* No encoding of the schedule fits, and the default one does not either.
ScheduleUnmet ==
    /\ image.writable
    /\ DefaultEncodedSize(image) > max_size
    /\ \A q \in Schedule : EncodedSize(image, q) > max_size

\* C1: if the default-quality encoding or the encoding at some scheduled
\* quality is at most max_size, the returned stream is at most max_size.
C1_CeilingMet ==
    (pc = "done" /\ Reencodable) => returned.stream.size <= max_size

\* C1 witness: the default encoding and the first scheduled ones are too
\* large, a later one fits, and the function has returned.
C1_Witness ==
    /\ pc = "done"
    /\ DefaultEncodedSize(image) > max_size
    /\ EncodedSize(image, QualityStart) > max_size
    /\ \E q \in Schedule : EncodedSize(image, q) <= max_size
    /\ returned.stream.size <= max_size

\* C2: the number of image.save calls is bounded: one when the default
\* encoding fits, otherwise the default one and at most 19 iterations, at
\* qualities 95, 90, ..., each 5 below the previous one and above 0; and the
\* function is never stuck before it returns.
C2_BoundedEncodes ==
    /\ Len(saves) <= 1 + 19
    /\ (pc = "done" /\ DefaultEncodedSize(image) <= max_size) => Len(saves) = 1
    /\ \A i \in 1..Len(saves) :
          IF i = 1 THEN saves[i].dflt
          ELSE /\ ~saves[i].dflt
               /\ saves[i].quality = 95 - 5 * (i - 2)
               /\ saves[i].quality > 0
    /\ pc \notin {"done", "save_raised"} => ENABLED NextEncode
    /\ pc = "save_raised" => saves = <<>>

\* C2 witness: a run that used the whole schedule has returned.
C2_Witness == pc = "done" /\ Len(saves) = 20

\* C3: when no encoding fits, the function still returns: the loop ends with
\* quality 0 and the result is the stream of the last iteration (quality 5).
C3_BestEffort ==
    (pc = "done" /\ ScheduleUnmet) =>
        /\ quality = 0
        /\ ~returned.original
        /\ returned.stream = saves[Len(saves)]
        /\ returned.stream = [dflt |-> FALSE, quality |-> 5, size |-> EncodedSize(image, 5)]
        /\ returned.stream.size > max_size

\* C3 witness: the schedule was exhausted without meeting the ceiling.
C3_Witness == pc = "done" /\ ScheduleUnmet /\ Len(saves) = 20

\* C4 as stated: the stream returned from the loop is never larger than the
\* first attempt, at quality 95, and the encoded sizes are non-increasing
\* across the iterations of the loop.
C4_AsStated ==
    (pc = "done" /\ ~returned.original) =>
        /\ returned.stream.size <= EncodedSize(image, QualityStart)
        /\ \A i \in 2..(Len(saves) - 1) : saves[i + 1].size <= saves[i].size

(***************************************************************************)
(* clean_software_tag on its own: the Software strings are built from      *)
(* fragments, so that both patterns, their partial matches and the strings *)
(* that match neither occur.                                               *)
(***************************************************************************)

\* The largest number of fragments in a Software string.
MaxFrags == 4

SoftwareFragments ==
    <<<<"A", "d", "o", "b", "e", " ", "P", "h", "o", "t", "o", "s", "h", "o", "p", " ">>, LIT_LightroomClassic, LIT_Ver, <<".">>, <<" ">>,
      <<"1", ".", "0", "0">>, <<"1", "3", ".", "2">>, <<"7">>, <<" ", "(", "W", "i", "n", "d", "o", "w", "s", ")">>,
      <<"U+0661", ".", "U+0662">>, <<"U+FF12">>>>

RECURSIVE Concat(_)
Concat(parts) == IF parts = <<>> THEN <<>> ELSE Head(parts) \o Concat(Tail(parts))

\* The Software string made of the fragments numbered f[1], f[2], ...
SoftwareString(f) == Concat([i \in 1..Len(f) |-> SoftwareFragments[f[i]]])

MODEL_ZF == <<"N", "I", "K", "O", "N", " ", "Z", " ", "f">>
MODEL_XT4 == <<"X", "-", "T", "4">>

\* The dict given to clean_software_tag: Software, with or without Model.
SoftwareDict(model, sw) ==
    (IF model.t = "none" THEN <<>> ELSE <<[k |-> "Model", v |-> model]>>)
    \o <<[k |-> "Software", v |-> StrV(sw)]>>

\* No reduce_image_size call has been made.
EncoderAtRest ==
    /\ max_size = 0
    /\ img_byte_arr = NoBuffer
    /\ current_size = 0
    /\ quality = 0
    /\ saves = <<>>
    /\ returned = NoReturn

\* The value of `image` where no image is open.
NoImage ==
    [dflt |-> 1, hi |-> 1, mid |-> 1, lo |-> 1, t1 |-> 0, t2 |-> 0, writable |-> TRUE]

EncodeIdle == image = NoImage /\ EncoderAtRest

InitSoftware ==
    /\ pc = "clean_software_tag"
    /\ \E n \in 1..MaxFrags :
          \E f \in [1..n -> 1..Len(SoftwareFragments)] :
             \E model \in {NoneV, StrV(MODEL_ZF), StrV(MODEL_XT4)} :
                exif = SoftwareDict(model, SoftwareString(f))
    /\ original = exif
    /\ outcome = NoOutcome
    /\ context_str = <<>>
    /\ pairs = <<>>
    /\ second = NoOutcome
    /\ converted_image = NoBuffer
    /\ EncodeIdle

\* A call of clean_software_tag(exif). Lines 77 and 79 assign into the dict
\* that was passed, and line 82 returns that same dict: after a call that
\* returns, exif is the returned dict; a call that raises has not written yet.
CleanSoftwareTag ==
    /\ pc = "clean_software_tag"
    /\ outcome' = clean_software_tag(exif)
    /\ exif' = IF outcome'.status = "ok" THEN outcome'.dict ELSE exif
    /\ pc' = "cleaned"
    /\ UNCHANGED <<original, context_str, pairs, second, converted_image, encVars>>

NextSoftware == CleanSoftwareTag

SpecSoftware == InitSoftware /\ [][NextSoftware]_vars

(***************************************************************************)
(* Properties of clean_software_tag                                        *)
(***************************************************************************)

\* The raw Software string of the call.
RawSoftware == Get(original, "Software").s

\* The Adobe branch applies and its pattern matches.
AdobeMatch(sw) == Contains(sw, LIT_Adobe) /\ \E i \in 1..Len(sw) : LightroomEndAt(sw, i) > 0

\* The other branch applies and its pattern matches.
VerMatch(sw) == ~Contains(sw, LIT_Adobe) /\ \E i \in 1..Len(sw) : VerAt(sw, i)[2] > 0

\* r is "Lightroom Classic <digits>.<digits>" and nothing else.
IsLightroomVersion(r) ==
    /\ MatchAt(r, 1, LIT_LightroomClassic)
    /\ DecimalEnd(r, Len(LIT_LightroomClassic) + 1) = Len(r) + 1

\* The position of the point of a numeral.
DotOf(x) == CHOOSE i \in 1..Len(x) : x[i] = "."

PadLeft(x, n) == [i \in 1..(n - Len(x)) |-> "0"] \o x
PadRight(x, n) == x \o [i \in 1..(n - Len(x)) |-> "0"]
Max(a, b) == IF a >= b THEN a ELSE b

\* Two numerals <digits>.<digits> denote the same number: with the digits of
\* the second read by their values, they agree digit by digit once both are
\* padded with zeros to the same widths.
SameNumber(x, yy) ==
    LET y == [i \in 1..Len(yy) |->
                 IF yy[i] = "." THEN "."
                 ELSE DecimalDigits[1][1 + CHOOSE v \in 0..9 :
                          \E r \in 1..Len(DecimalDigits) : DecimalDigits[r][v + 1] = yy[i]]]
        xi == SubSeq(x, 1, DotOf(x) - 1)
        xf == SubSeq(x, DotOf(x) + 1, Len(x))
        yi == SubSeq(y, 1, DotOf(y) - 1)
        yf == SubSeq(y, DotOf(y) + 1, Len(y))
    IN  /\ PadLeft(xi, Max(Len(xi), Len(yi))) = PadLeft(yi, Max(Len(xi), Len(yi)))
        /\ PadRight(xf, Max(Len(xf), Len(yf))) = PadRight(yf, Max(Len(xf), Len(yf)))

\* c is written as Python writes a float: ASCII digits, one point, digits,
\* no leading zero before a digit and no trailing zero after one.
CanonicalFloat(c) ==
    /\ Cardinality({i \in 1..Len(c) : c[i] = "."}) = 1
    /\ \A i \in 1..Len(c) : c[i] \in {"0", "1", "2", "3", "4", "5", "6", "7", "8", "9", "."}
    /\ DotOf(c) > 1 /\ DotOf(c) < Len(c)
    /\ (c[1] = "0" => DotOf(c) = 2)
    /\ (c[Len(c)] = "0" => DotOf(c) = Len(c) - 1)

\* C5 as stated: when the Software string matches neither pattern,
\* clean_software_tag returns and the dict's Software is as it was.
C5_PassThrough ==
    (pc = "cleaned" /\ ~AdobeMatch(RawSoftware) /\ ~VerMatch(RawSoftware)) =>
        /\ outcome.status = "ok"
        /\ Has(exif, "Software")
        /\ Get(exif, "Software") = Get(original, "Software")

\* C6: on a string with "Adobe" that matches the Lightroom pattern the new
\* Software is the leftmost matched substring, whether or not Model is there;
\* on a string without "Adobe" that matches the Ver pattern it is the Model
\* without "NIKON ", then " Ver. ", then the version written as a float. The
\* value is written into the dict that was passed, which is the one returned.
C6_BranchCorrect ==
    pc = "cleaned" =>
        /\ outcome.status = "ok" => exif = outcome.dict
        /\ outcome.status # "ok" => exif = original
        /\ AdobeMatch(RawSoftware) =>
              /\ outcome.status = "ok"
              /\ Keys(exif) = Keys(original)
              /\ Has(original, "Model") => Get(exif, "Model") = Get(original, "Model")
              /\ LET r == Get(exif, "Software").s
                     first == CHOOSE i \in 1..Len(RawSoftware) :
                                 /\ LightroomEndAt(RawSoftware, i) > 0
                                 /\ \A j \in 1..(i - 1) : LightroomEndAt(RawSoftware, j) = 0
                 IN  /\ IsLightroomVersion(r)
                     /\ MatchAt(RawSoftware, first, r)
                     /\ first + Len(r) <= Len(RawSoftware) =>
                           RawSoftware[first + Len(r)] \notin Digits
        /\ (VerMatch(RawSoftware) /\ Has(original, "Model")) =>
              /\ outcome.status = "ok"
              /\ Get(exif, "Model") = Get(original, "Model")
              /\ LET r == Get(exif, "Software").s
                     prefix == Replace(Get(original, "Model").s, LIT_Nikon, <<>>) \o LIT_VerDot
                     first == CHOOSE i \in 1..Len(RawSoftware) :
                                 /\ VerAt(RawSoftware, i)[2] > 0
                                 /\ \A j \in 1..(i - 1) : VerAt(RawSoftware, j)[2] = 0
                     group == SubSeq(RawSoftware, VerAt(RawSoftware, first)[1],
                                     VerAt(RawSoftware, first)[2] - 1)
                     c == SubSeq(r, Len(prefix) + 1, Len(r))
                 IN  /\ MatchAt(r, 1, prefix)
                     /\ CanonicalFloat(c)
                     /\ SameNumber(c, group)
        /\ (RawSoftware = <<"A", "d", "o", "b", "e", " ", "P", "h", "o", "t", "o", "s", "h", "o", "p", " ", "L", "i", "g", "h", "t", "r", "o", "o", "m", " ", "C", "l", "a", "s", "s", "i", "c", " ", "1", "3", ".", "2", " ", "(", "W", "i", "n", "d", "o", "w", "s", ")">>) =>
              Get(exif, "Software").s = <<"L", "i", "g", "h", "t", "r", "o", "o", "m", " ", "C", "l", "a", "s", "s", "i", "c", " ", "1", "3", ".", "2">>
        /\ (RawSoftware = <<"V", "e", "r", ".", "1", ".", "0", "0">> /\ Has(original, "Model")
                /\ Get(original, "Model").s = MODEL_ZF) =>
              Get(exif, "Software").s = <<"Z", " ", "f", " ", "V", "e", "r", ".", " ", "1", ".", "0">>
        /\ (RawSoftware = <<"V", "e", "r", " ", "U+0661", ".", "U+0662">> /\ Has(original, "Model")
                /\ Get(original, "Model").s = MODEL_ZF) =>
              Get(exif, "Software").s = <<"Z", " ", "f", " ", "V", "e", "r", ".", " ", "1", ".", "2">>

\* C6 witness: "Ver.1.00" with Model "NIKON Z f" has been parsed.
C6_Witness ==
    /\ pc = "cleaned"
    /\ RawSoftware = <<"V", "e", "r", ".", "1", ".", "0", "0">>
    /\ Has(original, "Model") /\ Get(original, "Model").s = MODEL_ZF
    /\ outcome.status = "ok"
    /\ Get(exif, "Software").s = <<"Z", " ", "f", " ", "V", "e", "r", ".", " ", "1", ".", "0">>

\* C6, second witness: a Lightroom string without a Model has been parsed.
C6_WitnessAdobe ==
    /\ pc = "cleaned"
    /\ AdobeMatch(RawSoftware)
    /\ ~Has(original, "Model")
    /\ outcome.status = "ok"

\* C6, third witness: a version written in digits of another script has been
\* parsed on the Ver branch.
C6_WitnessUnicode ==
    /\ pc = "cleaned"
    /\ RawSoftware = <<"V", "e", "r", " ", "U+0661", ".", "U+0662">>
    /\ Has(original, "Model") /\ Get(original, "Model").s = MODEL_ZF
    /\ Get(exif, "Software").s = <<"Z", " ", "f", " ", "V", "e", "r", ".", " ", "1", ".", "2">>

(***************************************************************************)
(* filter_exif, the context string, and filter_exif on its own output      *)
(***************************************************************************)

\* A tag the image does not carry.
Absent == [t |-> "absent", n |-> 0, d |-> 1, s |-> <<>>]

SW_Lightroom == StrV(<<"A", "d", "o", "b", "e", " ", "P", "h", "o", "t", "o", "s", "h", "o", "p", " ", "L", "i", "g", "h", "t", "r", "o", "o", "m", " ", "C", "l", "a", "s", "s", "i", "c", " ", "1", "3", ".", "2", " ", "(", "W", "i", "n", "d", "o", "w", "s", ")">>)
SW_Photoshop == StrV(<<"A", "d", "o", "b", "e", " ", "P", "h", "o", "t", "o", "s", "h", "o", "p", " ", "2", "5", ".", "0">>)
SW_Ver == StrV(<<"V", "e", "r", ".", "1", ".", "0", "0">>)
SW_Other == StrV(<<"n", "o", " ", "v", "e", "r", "s", "i", "o", "n", " ", "i", "n", "f", "o", " ", "h", "e", "r", "e">>)

\* The bag get_image_exif returns (lines 85-91), tags in the order of their
\* numbers in the file; an Absent value leaves the tag out.
RawBag(make, model, software, exposure, fnumber, program, iso, date, focal, lens) ==
    SelectSeq(<<[k |-> "Make", v |-> make],
                [k |-> "Model", v |-> model],
                [k |-> "Software", v |-> software],
                [k |-> "ExposureTime", v |-> exposure],
                [k |-> "FNumber", v |-> fnumber],
                [k |-> "ExposureProgram", v |-> program],
                [k |-> "ISOSpeedRatings", v |-> iso],
                [k |-> "DateTimeOriginal", v |-> date],
                [k |-> "FocalLengthIn35mmFilm", v |-> focal],
                [k |-> "LensModel", v |-> lens]>>,
              LAMBDA e : e.v.t # "absent")

STR_Lens == <<"N", "I", "K", "K", "O", "R", " ", "Z", " ", "4", "0", "m", "m", " ", "f", "/", "2">>
STR_LensBar == <<"A", "F", "|", "S", "=", "5", "0">>
STR_Date == <<"2", "0", "2", "4", ":", "0", "1", ":", "0", "2", " ", "0", "3", ":", "0", "4", ":", "0", "5">>

\* image["image_metadata"] of a Cloudinary resource, keys in CdnFields order;
\* an Absent value leaves the key out.
CdnMetadata(model, lens, focal, fnumber, exposure, iso, program, software, date) ==
    SelectSeq(<<[k |-> "Model", v |-> model],
                [k |-> "LensModel", v |-> lens],
                [k |-> "FocalLengthIn35mmFormat", v |-> focal],
                [k |-> "FNumber", v |-> fnumber],
                [k |-> "ExposureTime", v |-> exposure],
                [k |-> "ISO", v |-> iso],
                [k |-> "ExposureProgram", v |-> program],
                [k |-> "Software", v |-> software],
                [k |-> "DateTimeOriginal", v |-> date]>>,
              LAMBDA e : e.v.t # "absent")

\* Line 15, in the units of Sizes: an encoding of that size fits, a larger
\* one does not.
MAX_FILE_SIZE == 1

\* The images upload_folder opens: one whose default encoding fits
\* MAX_FILE_SIZE, one that fits from quality 90 down, one that no quality
\* makes fit, and one the JPEG encoder cannot write.
UploadImages ==
    {i \in Images :
        /\ i.writable
        /\ i.dflt = i.hi /\ i.mid = MAX_FILE_SIZE /\ i.lo = i.mid
        /\ \/ i.hi = MAX_FILE_SIZE /\ i.t1 = 0 /\ i.t2 = 0
           \/ i.hi = MAX_FILE_SIZE + 1 /\ i.t1 \in {0, QualityStart - QualityStep} /\ i.t2 = 0}
    \cup {Unwritable}

\* upload_folder starts from a local image and its bag, update_cdn_folder
\* from the metadata of an image on the CDN.
InitExif ==
    /\ \/ /\ pc = "filter_exif"
          /\ image \in UploadImages
          /\ \E make \in {Absent, StrV(<<"N", "I", "K", "O", "N", " ", "C", "O", "R", "P", "O", "R", "A", "T", "I", "O", "N">>)},
                model \in {Absent, NoneV, StrV(MODEL_ZF), StrV(MODEL_XT4)},
                software \in {Absent, SW_Lightroom, SW_Photoshop, SW_Ver, SW_Other},
                exposure \in {Absent, RatV(1, 250), RatV(10, 2500), RatV(5, 2), NanV,
                              StrV(<<"0", ".", "0", "0", "4">>), StrV(<<"1", "/", "2", "5", "0", "s">>)},
                fnumber \in {Absent, RatV(28, 10)},
                program \in {Absent, IntV(1), IntV(9)},
                iso \in {Absent, NoneV, IntV(100)},
                date \in {Absent, StrV(STR_Date)},
                focal \in {Absent, IntV(40)},
                lens \in {Absent, NoneV, StrV(STR_Lens), StrV(STR_LensBar)} :
                   exif = RawBag(make, model, software, exposure, fnumber, program,
                                 iso, date, focal, lens)
       \/ /\ pc = "extract_exif_from_cdn_image"
          /\ image = NoImage
          /\ \E model \in {Absent, StrV(MODEL_ZF)},
                lens \in {Absent, StrV(STR_Lens), StrV(STR_LensBar)},
                focal \in {Absent, IntV(40), StrV(<<"4", "0", " ", "m", "m">>)},
                fnumber \in {StrV(<<"8", ".", "0">>), RatV(28, 10)},
                exposure \in {Absent, StrV(<<"0", ".", "0", "0", "4">>), StrV(<<"1", "/", "2", "5", "0">>)},
                iso \in {StrV(<<"1", "0", "0">>), IntV(100)},
                program \in {NoneV, StrV(<<"M", "a", "n", "u", "a", "l">>)},
                software \in {Absent, SW_Lightroom, SW_Ver, SW_Other},
                date \in {StrV(STR_Date)} :
                   exif = CdnMetadata(model, lens, focal, fnumber, exposure, iso,
                                      program, software, date)
    /\ original = exif
    /\ outcome = NoOutcome
    /\ context_str = <<>>
    /\ pairs = <<>>
    /\ second = NoOutcome
    /\ converted_image = NoBuffer
    /\ EncoderAtRest

\* context = filter_exif(exif), lines 248-249. filter_exif builds exif_clean
\* anew (line 107) and writes to it only: the bag is left as it was.
FilterExif ==
    /\ pc = "filter_exif"
    /\ outcome' = filter_exif(exif)
    /\ pc' = IF outcome'.status = "ok" THEN "normalized" ELSE "raised"
    /\ UNCHANGED <<exif, original, context_str, pairs, second, converted_image, encVars>>

\* compressed_image = reduce_image_size(image), line 250: the call, with
\* max_size left to its default. The steps of the function are SaveDefault
\* to LoopExit; when image.save raises, upload_folder ends there.
ReduceImageSize ==
    /\ pc = "normalized"
    /\ max_size' = MAX_FILE_SIZE
    /\ pc' = "save_default"
    /\ UNCHANGED <<image, img_byte_arr, current_size, quality, saves, returned, exifVars>>

\* converted_image = image_to_bytesio(compressed_image), lines 151-156 and
\* 251: the image reduce_image_size returned is encoded once more, at the
\* default quality. The source image gives the size of its first encoding
\* again; the image re-opened from the loop's last buffer is another image,
\* whose default encoding has any size.
ImageToBytesio ==
    /\ pc = "done"
    /\ \E size \in (IF returned.original THEN {DefaultEncodedSize(image)} ELSE Sizes) :
          converted_image' = [dflt |-> TRUE, quality |-> 0, size |-> size]
    /\ saves' = Append(saves, converted_image')
    /\ pc' = "converted"
    /\ UNCHANGED <<image, max_size, img_byte_arr, current_size, quality, returned,
                   exif, original, outcome, context_str, pairs, second>>

\* upload_image(converted_image, ..., context), line 253: the context string
\* is built (line 164) and sent with the buffer.
UploadImage ==
    /\ pc = "converted"
    /\ context_str' = ContextString(outcome.dict)
    /\ pc' = "uploaded"
    /\ UNCHANGED <<exif, original, outcome, pairs, second, converted_image, encVars>>

\* context = extract_exif_from_cdn_image(image_details), line 264. The dict
\* literal is a new dict: the metadata is left as it was.
ExtractExifFromCdnImage ==
    /\ pc = "extract_exif_from_cdn_image"
    /\ outcome' = extract_exif_from_cdn_image(exif)
    /\ pc' = IF outcome'.status = "ok" THEN "extracted" ELSE "extract_raised"
    /\ UNCHANGED <<exif, original, context_str, pairs, second, converted_image, encVars>>

\* update_cdn_image(public_id, context), line 214: the context string is built.
UpdateCdnImage ==
    /\ pc = "extracted"
    /\ context_str' = ContextString(outcome.dict)
    /\ pc' = "uploaded"
    /\ UNCHANGED <<exif, original, outcome, pairs, second, converted_image, encVars>>

\* A reader splits the context string back into pairs.
ReadContext ==
    /\ pc = "uploaded"
    /\ pairs' = ParseContext(context_str)
    /\ pc' = "read"
    /\ UNCHANGED <<exif, original, outcome, context_str, second, converted_image, encVars>>

\* filter_exif applied to the record it returned.
FilterExifAgain ==
    /\ pc = "normalized"
    /\ second' = filter_exif(outcome.dict)
    /\ pc' = "renormalized"
    /\ UNCHANGED <<exif, original, outcome, context_str, pairs, converted_image, encVars>>

NextExif ==
    \/ FilterExif
    \/ ReduceImageSize
    \/ SaveDefault
    \/ SaveDefaultRaises
    \/ EnterLoop
    \/ ReturnOriginal
    \/ LoopBody
    \/ LoopExit
    \/ ImageToBytesio
    \/ UploadImage
    \/ ExtractExifFromCdnImage
    \/ UpdateCdnImage
    \/ ReadContext
    \/ FilterExifAgain

SpecExif == InitExif /\ [][NextExif]_vars

(***************************************************************************)
(* Properties of filter_exif and of the context string                     *)
(***************************************************************************)

\* filter_exif has returned or raised.
Filtered == pc \in {"normalized", "raised"}

\* The raw tag each field of the record comes from.
RawName(field) ==
    CASE field = "ISO" -> "ISOSpeedRatings"
      [] field = "FocalLengthIn35mmFormat" -> "FocalLengthIn35mmFilm"
      [] OTHER -> field

OutputFields ==
    {"Model", "LensModel", "FocalLengthIn35mmFormat", "FNumber", "ExposureTime",
     "ISO", "ExposureProgram", "Software", "DateTimeOriginal"}

\* The raw bag holds the tag with a value that is not None.
Present(bag, k) == Has(bag, k) /\ Get(bag, k).t # "none"

\* C7 as stated: filter_exif raises a missing-field error, and returns no
\* record, whenever ExposureTime, FocalLengthIn35mmFilm, Software or Model is
\* absent or None.
C7_AsStated ==
    (Filtered /\ \E k \in {"ExposureTime", "FocalLengthIn35mmFilm", "Software", "Model"} :
                    ~Present(exif, k)) =>
        (outcome.status = "KeyError" /\ outcome.dict = <<>>)

\* C8 as stated: for a bag that holds ExposureTime, FocalLengthIn35mmFilm,
\* Software and Model, filter_exif returns a record in which each of the nine
\* fields is present exactly when its raw tag had a value, and nothing else is.
C8_AsStated ==
    (Filtered /\ \A k \in {"ExposureTime", "FocalLengthIn35mmFilm", "Software", "Model"} :
                    Present(exif, k)) =>
        /\ outcome.status = "ok"
        /\ Keys(outcome.dict) \subseteq OutputFields
        /\ \A field \in OutputFields :
              Has(outcome.dict, field) <=> Present(exif, RawName(field))

\* C9 as stated: filter_exif applied to its own output returns that output.
C9_AsStated == pc = "renormalized" => second = outcome

\* C9 amended: filter_exif is not idempotent. Applied to a record it
\* returned, the selection drops the renamed keys ISO and
\* FocalLengthIn35mmFormat and the call raises
\* KeyError('FocalLengthIn35mmFilm'); no record is returned.
C9_SecondPassRaises ==
    pc = "renormalized" =>
        /\ Keys(Select(outcome.dict)) = Keys(outcome.dict) \ {"ISO", "FocalLengthIn35mmFormat"}
        /\ second = Raise("KeyError", "FocalLengthIn35mmFilm")

\* C9 witness: a returned record, renamed keys in it, has been filtered again.
C9_Witness ==
    /\ pc = "renormalized"
    /\ outcome.status = "ok"
    /\ Has(outcome.dict, "ISO") /\ Has(outcome.dict, "FocalLengthIn35mmFormat")
    /\ second.status = "KeyError"

\* C10 as stated: splitting the context string on "|" and each part on "="
\* gives back the field/value pairs of the record.
C10_AsStated == pc = "read" => pairs = ContextPairs(outcome.dict)

====
